---- MODULE Spec2Model ----
(***************************************************************************)
(* AAR backend (src/backend/main.js): the permission-gated agentic loop.    *)
(* The Express handlers POST /message, POST /approve-module and             *)
(* POST /clear-history run on one event loop: a handler runs without         *)
(* interruption up to its next `await` of a module handler or of the AI     *)
(* backend; other handlers may run while it waits.  Every action below is   *)
(* one such uninterrupted segment.                                          *)
(*                                                                         *)
(* Strings are sequences of one-character strings, so that the directive   *)
(* regex is computed character by character.  The literal pieces of a      *)
(* template string are kept as single elements of the sequence.            *)
(***************************************************************************)
EXTENDS Integers, Sequences, FiniteSets, TLC

\* ------------------------------------------------------------------ text

\* \w of the regex
WordChars ==
    { "a","b","c","d","e","f","g","h","i","j","k","l","m","n","o","p","q","r",
      "s","t","u","v","w","x","y","z",
      "A","B","C","D","E","F","G","H","I","J","K","L","M","N","O","P","Q","R",
      "S","T","U","V","W","X","Y","Z",
      "0","1","2","3","4","5","6","7","8","9","_" }

\* \s of the regex
SpaceChars == { " ", "\n", "\t", "\r" }

\* what `.` of the regex does not match
LineTerminators == { "\n", "\r" }

\* first position q >= p of t that is past the end or holds no char of class
SpanEnd(t, p, class) ==
    CHOOSE q \in p..(Len(t) + 1) :
        /\ (q = Len(t) + 1 \/ t[q] \notin class)
        /\ \A r \in p..(q - 1) : t[r] \in class

\* first position q >= p of t that is past the end or holds a char of class
SpanUntil(t, p, class) ==
    CHOOSE q \in p..(Len(t) + 1) :
        /\ (q = Len(t) + 1 \/ t[q] \in class)
        /\ \A r \in p..(q - 1) : t[r] \notin class

\* the literal lit stands in t at position p
LitAt(t, p, lit) ==
    /\ p + Len(lit) - 1 <= Len(t)
    /\ \A k \in 1..Len(lit) : t[p + k - 1] = lit[k]

\* the element of a one-element set
Only(S) == CHOOSE v \in S : TRUE

Slice(t, from, to) == [k \in 1..(to - from + 1) |-> t[from + k - 1]]

\* String.prototype.includes for a one-character needle
Includes(t, c) == \E k \in 1..Len(t) : t[k] = c

\* String.prototype.split on a one-character separator: the first two parts
SplitFirst(t, c) == Slice(t, 1, SpanUntil(t, 1, {c}) - 1)

SplitSecond(t, c) ==
    LET p == SpanUntil(t, 1, {c}) + 1
    IN  Slice(t, p, SpanUntil(t, p, {c}) - 1)

\* ---------------------------------------------------------------- parser

NoDirective == [found |-> FALSE, module |-> <<>>, command |-> <<>>, parameters |-> <<>>]

\* The regex  \/?run\s+module\s+(\w+)\s+(\w+)(?:\s+(.+))?  tried with "run"
\* at position p of t, one operator per piece of the pattern.  Every
\* quantifier is greedy; the only backtracking that can change the outcome
\* is \s+ of the optional group giving characters back to (.+).

\* (?:\s+(.+))? after the command token, which ends before e2; sp is the end
\* of the spaces that follow it.  (.+) starts after at least one space, on a
\* character that `.` matches, as late as possible.
MatchParameters(t, e2, sp) ==
    LET starts == { q \in (e2 + 1)..sp : q <= Len(t) /\ t[q] \notin LineTerminators }
    IN  IF starts = {} THEN <<>>
        ELSE Only({ Slice(t, q3, SpanUntil(t, q3, LineTerminators) - 1) :
                    q3 \in { q \in starts : \A r \in starts : r <= q } })

\* (\w+) of the command, from w2 to before e2
MatchCommand(t, w1, e1, w2, e2) ==
    IF e2 = w2 THEN NoDirective
    ELSE [found |-> TRUE,
          module |-> Slice(t, w1, e1 - 1),
          command |-> Slice(t, w2, e2 - 1),
          parameters |-> MatchParameters(t, e2, SpanEnd(t, e2, SpaceChars))]

\* \s+ between the module token and the command token
MatchSecondSpaces(t, w1, e1, w2) ==
    IF w2 = e1 THEN NoDirective
    ELSE MatchCommand(t, w1, e1, w2, SpanEnd(t, w2, WordChars))

\* (\w+) of the module, from w1 to before e1
MatchModule(t, w1, e1) ==
    IF e1 = w1 THEN NoDirective
    ELSE MatchSecondSpaces(t, w1, e1, SpanEnd(t, e1, SpaceChars))

\* \s+ after "module", from s2 to before w1
MatchFirstSpaces(t, s2, w1) ==
    IF w1 = s2 THEN NoDirective
    ELSE MatchModule(t, w1, SpanEnd(t, w1, WordChars))

\* \s*module after "run": the spaces no longer required
MatchKeywordGlued(t, s1, m0) ==
    IF ~LitAt(t, m0, <<"m","o","d","u","l","e">>) THEN NoDirective
    ELSE MatchFirstSpaces(t, m0 + 6, SpanEnd(t, m0 + 6, SpaceChars))

\* \s+module after "run", the spaces from s1 to before m0
MatchKeyword(t, s1, m0) ==
    IF m0 = s1 \/ ~LitAt(t, m0, <<"m","o","d","u","l","e">>) THEN NoDirective
    ELSE MatchFirstSpaces(t, m0 + 6, SpanEnd(t, m0 + 6, SpaceChars))

MatchAt(t, p) ==
    IF ~LitAt(t, p, <<"r","u","n">>) THEN NoDirective
    ELSE MatchKeyword(t, p + 3, SpanEnd(t, p + 3, SpaceChars))

\* regex.exec from lastIndex 0: the leftmost position where the regex
\* matches.  The optional leading "/" changes match[0] only.
RegexExec(t) ==
    LET hits == { p \in 1..Len(t) : MatchAt(t, p).found }
    IN  IF hits = {} THEN NoDirective
        ELSE Only({ MatchAt(t, p) : p \in { q \in hits : \A r \in hits : q <= r } })

\* the directive of a match: the dotted module token is split
SplitDotted(match) ==
    IF ~match.found THEN NoDirective
    ELSE IF Includes(match.module, ".")
         THEN [match EXCEPT !.module = SplitFirst(match.module, "."),
                            !.command = SplitSecond(match.module, ".")]
         ELSE match

\* ModuleService.parseModuleCommand
parseModuleCommand(text) == Only({ SplitDotted(match) : match \in { RegexExec(text) } })

\* ------------------------------------------------------------- constants

ListModule == <<"l","i","s","t">>
TimeModule == <<"t","i","m","e">>
WebsearchModule == <<"w","e","b","s","e","a","r","c","h">>

\* The modules directory: module id -> command names.
Registry ==
    [ m \in {ListModule, TimeModule, WebsearchModule} |->
        IF m = ListModule THEN { <<"l","i","s","t","A","l","l","M","o","d","u","l","e","s">> }
        ELSE IF m = TimeModule
             THEN { <<"g","e","t","T","i","m","e">>, <<"g","e","t","D","a","t","e">> }
             ELSE { <<"s","e","a","r","c","h">> } ]

DefaultSession == "default"

\* -------------------------------------------------------------- runModule

Quotes == { "\"", "'" }

\* /query\s*=\s*["']([^"']+)["']/ tried at position p
QuotedQueryAt(t, p) ==
    IF ~LitAt(t, p, <<"q","u","e","r","y">>) THEN <<>>
    ELSE
    LET a == SpanEnd(t, p + 5, SpaceChars)
    IN  IF ~LitAt(t, a, <<"=">>) THEN <<>>
        ELSE
        LET b == SpanEnd(t, a + 1, SpaceChars)
        IN  IF b > Len(t) \/ t[b] \notin Quotes THEN <<>>
            ELSE
            LET e == SpanUntil(t, b + 1, Quotes)
            IN  IF e = b + 1 \/ e > Len(t) THEN <<>> ELSE Slice(t, b + 1, e - 1)

\* /query\s*=\s*([^\s]+)/ tried at position p
BareQueryAt(t, p) ==
    IF ~LitAt(t, p, <<"q","u","e","r","y">>) THEN <<>>
    ELSE
    LET a == SpanEnd(t, p + 5, SpaceChars)
    IN  IF ~LitAt(t, a, <<"=">>) THEN <<>>
        ELSE
        LET b == SpanEnd(t, a + 1, SpaceChars)
            e == SpanUntil(t, b, SpaceChars)
        IN  IF e = b THEN <<>> ELSE Slice(t, b, e - 1)

\* the parameter handed to the handler (runModule, "Parse parameters")
ParsedParams(parameters) ==
    IF ~(\E p \in 1..Len(parameters) : LitAt(parameters, p, <<"q","u","e","r","y","=">>))
    THEN parameters
    ELSE
    LET quoted == { p \in 1..Len(parameters) : QuotedQueryAt(parameters, p) # <<>> }
        bare == { p \in 1..Len(parameters) : BareQueryAt(parameters, p) # <<>> }
    IN  IF quoted # {}
        THEN QuotedQueryAt(parameters, CHOOSE p \in quoted : \A r \in quoted : p <= r)
        ELSE IF bare # {}
             THEN BareQueryAt(parameters, CHOOSE p \in bare : \A r \in bare : p <= r)
             ELSE parameters

\* moduleOutput values.  {success: true, result} has error = <<>>;
\* {error: message} has success = FALSE and a non-empty error.  threw marks
\* the case where runModule returns nothing: its promise is rejected with an
\* exception whose message is in error.
NoOutput == [success |-> FALSE, result |-> <<>>, error |-> <<>>, threw |-> FALSE]

\* module?.commands?.[commandName] is defined
HasCommand(moduleName, commandName) ==
    moduleName \in DOMAIN Registry /\ commandName \in Registry[moduleName]

CommandNotFound(moduleName, commandName) ==
    [success |-> FALSE, result |-> <<>>,
     error |-> <<"Command \"">> \o commandName \o <<"\" not found in \"">>
               \o moduleName \o <<"\"">>,
     threw |-> FALSE]

\* The handler returns a value (outcome "returns"), throws an Error
\* ("throws"), or throws undefined, as a promise rejected without a reason
\* does ("throws_nothing").
HandlerResult(moduleName, commandName, arg) ==
    <<"result of ">> \o moduleName \o <<".">> \o commandName \o <<"(">> \o arg \o <<")">>

\* message of the TypeError raised by `err.message` when err is undefined
NoMessageError == <<"Cannot read properties of undefined (reading 'message')">>

\* ModuleService.runModule, given what the handler does
runModule(moduleName, commandName, parameters, outcome) ==
    IF ~HasCommand(moduleName, commandName)
    THEN CommandNotFound(moduleName, commandName)
    ELSE IF outcome = "returns"
         THEN [success |-> TRUE,
               result |-> HandlerResult(moduleName, commandName, ParsedParams(parameters)),
               error |-> <<>>, threw |-> FALSE]
         ELSE IF outcome = "throws"
         THEN \* catch (err): return { error: err.message }
              [success |-> FALSE, result |-> <<>>, error |-> <<"handler failed">>,
               threw |-> FALSE]
         ELSE \* err is undefined: err.message throws inside the catch block
              [success |-> FALSE, result |-> <<>>, error |-> NoMessageError,
               threw |-> TRUE]

\* JSON.stringify(moduleOutput)
Stringify(out) ==
    IF out.success
    THEN <<"{\"success\":true,\"result\":\"">> \o out.result \o <<"\"}">>
    ELSE <<"{\"error\":\"">> \o out.error \o <<"\"}">>

\* markdown.toHTML(text)
toHTML(text) == <<"<p>">> \o text \o <<"</p>">>

\* JSON.stringify(moduleOutput, null, 2)
StringifyPretty(out) ==
    IF out.success
    THEN <<"{\n  \"success\": true,\n  \"result\": \"">> \o out.result \o <<"\"\n}">>
    ELSE <<"{\n  \"error\": \"">> \o out.error \o <<"\"\n}">>

\* the nextPrompt template of both routes
ContinuationPrompt(originalPrompt, module, command, out) ==
    <<"Original user request: \"">> \o originalPrompt
    \o <<"\". \nModule execution result for ">> \o module \o <<".">> \o command
    \o <<": ">> \o Stringify(out)
    \o <<".\nBased on this result, please provide a complete response to the user's original request. Only execute another module if the result is insufficient to answer the user's question. If you need to execute more modules, use the /run module syntax again.">>

\* content of the assistant entry of a direct command
DirectContent(cmd, out) ==
    <<"Direct command executed: ">> \o cmd.module \o <<".">> \o cmd.command
    \o <<"\nResult: ">> \o StringifyPretty(out)

\* message of the TypeError raised by undefined.push(...)
TypeErrorMessage == <<"Cannot read properties of undefined (reading 'push')">>

\* ---------------------------------------------------------------- inputs

MaxRequests == 3

Hi == <<"h","i">>
Answer == <<"o","k">>
ListDirective == <<"/","r","u","n"," ","m","o","d","u","l","e"," ","l","i","s","t"," ",
                   "l","i","s","t","A","l","l","M","o","d","u","l","e","s">>
WebDirective == <<"/","r","u","n"," ","m","o","d","u","l","e"," ","w","e","b","s","e","a",
                  "r","c","h"," ","s","e","a","r","c","h"," ","c","a","t","s">>

Absent == "undefined"
BogusId == <<"bogus">>

\* The inputs of a specification: the request bodies the clients send, what
\* a module handler may do, and the texts the AI backend may return.
CoreInputs ==
    [ prompts |-> { Hi, WebDirective },
      tasks |-> { "llm" },
      sids |-> { Absent },
      ids |-> { BogusId },
      approvals |-> { "true", "false" },
      outcomes |-> { "returns" },
      texts |-> { Answer, ListDirective, WebDirective } ]

\* the `approved` field not looked at
TruthyAny(v) == TRUE

\* JavaScript truthiness of the `approved` field, a JSON value written as in
\* the request body ("undefined": the field is absent)
Truthy(v) == v \notin { "false", "undefined", "null", "0", "\"\"" }

\* `sessionId = 'default'` of the destructuring: the default replaces undefined
WithDefault(sid) == IF sid = Absent THEN DefaultSession ELSE sid

\* `x || 'default'`: the default replaces every falsy value
OrDefault(sid) == IF sid = "" \/ sid = Absent THEN DefaultSession ELSE sid

\* ----------------------------------------------------------------- state

VARIABLES
    pendingModuleRequests,  \* Map: requestId -> PendingApproval
    chatHistory,            \* Map: sessionId -> reference of the session's array
    arrays,                 \* the message arrays, by reference
    inflight,               \* the requests suspended at an await
    done,                   \* the request that sent its HTTP response last
    nreq,                   \* requests received
    defaultService,         \* AIService.defaultService, fixed at start-up
    issued                  \* history: every requestId generated, in order

vars ==
    <<pendingModuleRequests, chatHistory, arrays, inflight, done, nreq, defaultService,
      issued>>

NoPending ==
    [module |-> <<>>, command |-> <<>>, parameters |-> <<>>, originalPrompt |-> <<>>,
     aiResponse |-> <<>>, allModuleOutputs |-> <<>>, originalSessionId |-> ""]

NoResponse ==
    [sent |-> FALSE, success |-> FALSE, message |-> <<>>, requiresApproval |-> FALSE,
     requestId |-> <<>>, module |-> <<>>, command |-> <<>>, previousResult |-> <<>>,
     denied |-> FALSE, directCommand |-> FALSE, hasModuleResult |-> FALSE,
     moduleResult |-> NoOutput, hasHistory |-> FALSE, history |-> <<>>]

\* the prompt text of main.js 141-190, as one piece
SystemLLMPrompt == <<"SystemLLMPrompt">>

\* what a provider is sent: chat messages (OpenAI, Ollama) or one text (Gemini)
NothingSent == [messages |-> <<>>, contents |-> <<>>]

\* A request: its body, the handler's position and locals, and a record of
\* what the handler has done so far (ran, prompts, pushed, created, found).
NoRequest ==
    [n |-> 0, route |-> "none", pc |-> "done",
     userprompt |-> <<>>, typoftask |-> "", sessionId |-> "",
     requestId |-> <<>>, approved |-> "undefined",
     sessionHistory |-> 0, pendingRequest |-> NoPending, found |-> FALSE,
     cmd |-> NoDirective, moduleOutput |-> NoOutput, outputs |-> <<>>,
     aiResponse |-> <<>>, prompt |-> <<>>, forwarded |-> NothingSent,
     ran |-> <<>>, prompts |-> <<>>, pushed |-> <<>>, created |-> <<>>,
     resp |-> NoResponse]

\* an id that repeats
RepeatedRequestId == <<"id", "1">>

\* Date.now().toString() + Math.random().toString(36).substr(2, 9): modelled
\* as a value no earlier call returned.
NewRequestId == <<"id", ToString(Len(issued) + 1)>>

Failure(message) == [NoResponse EXCEPT !.sent = TRUE, !.message = message]

Call(cmd, site) ==
    [site |-> site, module |-> cmd.module, command |-> cmd.command,
     parameters |-> cmd.parameters,
     invoked |-> HasCommand(cmd.module, cmd.command),
     arg |-> ParsedParams(cmd.parameters)]

UserEntry(content) == [role |-> "user", content |-> content]
AssistantEntry(content) == [role |-> "assistant", content |-> content]

\* the entry lost
PushLost(arr, ref, entry) == arr

\* array.push(entry), and the handler's record of it
Push(arr, ref, entry) == [arr EXCEPT ![ref] = Append(@, entry)]
Pushed(arr, ref, entry) == [ref |-> ref, index |-> Len(arr[ref]) + 1, entry |-> entry]

\* the gate dropped: every module is run without asking the user
AutoApprovedAny(cmd) == TRUE

\* the module named by a directive is run without asking the user
AutoApproved(cmd) == cmd.module = ListModule

\* the delete forgotten
DeleteNothing(map, key) == map

\* pendingModuleRequests.delete(requestId), chatHistory.delete(sessionId)
Delete(map, key) == [k \in DOMAIN map \ {key} |-> map[k]]

TypeOK ==
    /\ nreq \in 0..MaxRequests
    /\ done.n \in 0..nreq
    /\ \A h \in inflight : h.n \in 1..nreq /\ h.pc # "done"
    /\ DOMAIN pendingModuleRequests \subseteq { issued[k].id : k \in 1..Len(issued) }

Init ==
    /\ pendingModuleRequests = << >>
    /\ chatHistory = << >>
    /\ arrays = << >>
    /\ inflight = {}
    /\ done = NoRequest
    /\ nreq = 0
    /\ defaultService = "ollama"
    /\ issued = << >>

\* the handler ends without res.json(...)
RespondNothing(h, resp) == [h EXCEPT !.pc = "done"]

\* a handler sends its response: res.json(...)
Respond(h, resp) == [h EXCEPT !.pc = "done", !.resp = [resp EXCEPT !.sent = TRUE]]

\* the entry stored under the default session and the model's own text
PendingEntryOfModel(cmd, originalPrompt, aiResponse, outputs, sessionId) ==
    [module |-> cmd.module, command |-> cmd.command, parameters |-> cmd.parameters,
     originalPrompt |-> aiResponse, aiResponse |-> aiResponse,
     allModuleOutputs |-> outputs, originalSessionId |-> "default"]

\* the object stored by pendingModuleRequests.set(requestId, { ... })
PendingEntry(cmd, originalPrompt, aiResponse, outputs, sessionId) ==
    [module |-> cmd.module, command |-> cmd.command, parameters |-> cmd.parameters,
     originalPrompt |-> originalPrompt, aiResponse |-> aiResponse,
     allModuleOutputs |-> outputs, originalSessionId |-> sessionId]

\* a handler stores a PendingApproval and answers that approval is required
Suspend(h, cmd, originalPrompt, aiResponse, outputs, sessionId, previous, message) ==
    LET requestId == NewRequestId
        entry == PendingEntry(cmd, originalPrompt, aiResponse, outputs, sessionId)
    IN  /\ pendingModuleRequests' = (requestId :> entry) @@ pendingModuleRequests
        /\ issued' = Append(issued, [id |-> requestId, entry |-> entry, by |-> h.n,
                                     resolved |-> <<>>])
        /\ done' = Respond([h EXCEPT !.created = Append(@, requestId),
                                     !.aiResponse = aiResponse],
                           [NoResponse EXCEPT !.success = TRUE, !.requiresApproval = TRUE,
                                              !.requestId = requestId,
                                              !.module = cmd.module,
                                              !.command = cmd.command,
                                              !.previousResult = previous,
                                              !.message = message])
        /\ inflight' = inflight \ {h}

\* the whole history
recentHistoryAll(history) == history

\* history.slice(-10)
recentHistory(history) ==
    SubSeq(history, IF Len(history) > 10 THEN Len(history) - 9 ELSE 1, Len(history))

SystemMessage(content) == [role |-> "system", content |-> content]

\* `${msg.role}: ${msg.content}`
HistoryLine(msg) == <<msg.role, ": ">> \o msg.content

\* lines.join('\n')
RECURSIVE JoinLines(_)
JoinLines(lines) ==
    IF lines = <<>> THEN <<>>
    ELSE IF Len(lines) = 1 THEN lines[1]
    ELSE lines[1] \o <<"\n">> \o JoinLines(Tail(lines))

\* The request getOpenAIResponse sends with a configured key and no module
\* output: the system prompt, the recent history, the prompt.
getOpenAIResponse(prompt, systemPrompt, history) ==
    [NothingSent EXCEPT !.messages =
        <<SystemMessage(systemPrompt)>>
        \o (IF Len(history) > 0 THEN recentHistory(history) ELSE <<>>)
        \o <<UserEntry(prompt)>>]

\* The request getGeminiResponse sends: fullPrompt.
getGeminiResponse(prompt, systemPrompt, history) ==
    [NothingSent EXCEPT !.contents =
        systemPrompt
        \o (IF Len(history) > 0
            THEN <<"\n\nChat History:\n">>
                 \o JoinLines([ i \in 1..Len(recentHistory(history)) |->
                                  HistoryLine(recentHistory(history)[i]) ])
            ELSE <<>>)
        \o <<"\n\nUser: ">> \o prompt]

\* The request getOllamaResponse sends: fullPrompt is built and not used.
getOllamaResponse(prompt, systemPrompt, history) ==
    [NothingSent EXCEPT !.messages = <<SystemMessage(systemPrompt), UserEntry(prompt)>>]

\* AIService.getResponse up to the provider call
getResponse(prompt, systemPrompt, history) ==
    IF defaultService = "openai" THEN getOpenAIResponse(prompt, systemPrompt, history)
    ELSE IF defaultService = "gemini" THEN getGeminiResponse(prompt, systemPrompt, history)
    ELSE IF defaultService = "ollama" THEN getOllamaResponse(prompt, systemPrompt, history)
    ELSE NothingSent

\* chatHistory.get(sessionId) || []
HistoryOrEmpty(sessionId) ==
    IF sessionId \in DOMAIN chatHistory THEN arrays[chatHistory[sessionId]] ELSE <<>>

\* the earlier results dropped
WithResultOnly(outputs, module, command, result) ==
    << [module |-> module, command |-> command, result |-> result] >>

\* [...outputs, { module, command, result }]
WithResult(outputs, module, command, result) ==
    Append(outputs, [module |-> module, command |-> command, result |-> result])

FirstApprovalMessage ==
    <<"AI requests permission to execute a module. Please approve or deny.">>
NextApprovalMessage == <<"AI requests permission to execute another module.">>

\* --------------------------------------------------------- POST /message

\* only the prompt looked at
MissingPrompt(userprompt, typoftask) == userprompt = <<>>

\* !userprompt || !typoftask
MissingFields(userprompt, typoftask) == userprompt = <<>> \/ typoftask = ""

\* the handler up to its first await, or to its response
ReceiveMessage(userprompt, typoftask, sid) ==
    /\ UNCHANGED defaultService
    /\ nreq < MaxRequests
    /\ nreq' = nreq + 1
    /\ LET sessionId == WithDefault(sid)
           req == [NoRequest EXCEPT !.n = nreq + 1, !.route = "message",
                                    !.userprompt = userprompt,
                                    !.typoftask = typoftask, !.sessionId = sessionId]
       IN  IF MissingFields(userprompt, typoftask)
           THEN /\ done' = Respond(req, Failure(<<"Missing Fields">>))
                /\ UNCHANGED <<pendingModuleRequests, chatHistory, arrays, inflight, issued>>
           ELSE
           LET has == sessionId \in DOMAIN chatHistory
               ref == IF has THEN chatHistory[sessionId] ELSE Len(arrays) + 1
               arrays1 == IF has THEN arrays ELSE Append(arrays, <<>>)
           IN  \E directCommand \in { parseModuleCommand(userprompt) } :
               /\ chatHistory' = IF has THEN chatHistory
                                 ELSE (sessionId :> ref) @@ chatHistory
               /\ UNCHANGED <<pendingModuleRequests, issued>>
               /\ IF directCommand.found
                  THEN /\ arrays' = arrays1
                       /\ inflight' = inflight \cup
                            { [req EXCEPT !.pc = "run_direct", !.cmd = directCommand,
                                          !.ran = <<Call(directCommand, "direct")>>] }
                       /\ UNCHANGED done
                  ELSE
                  LET entry == UserEntry(userprompt)
                      req2 == [req EXCEPT !.sessionHistory = ref,
                                          !.pushed = <<Pushed(arrays1, ref, entry)>>]
                  IN  /\ arrays' = Push(arrays1, ref, entry)
                      /\ IF typoftask = "llm"
                         THEN /\ inflight' = inflight \cup
                                   { [req2 EXCEPT !.pc = "ai_first",
                                                  !.prompt = userprompt,
                                                  !.prompts = <<userprompt>>,
                                                  !.forwarded =
                                                      getResponse(userprompt,
                                                          SystemLLMPrompt,
                                                          Push(arrays1, ref, entry)[ref])] }
                              /\ UNCHANGED done
                         ELSE /\ done' = Respond(req2, Failure(<<"Unknown task type">>))
                              /\ UNCHANGED inflight

\* the direct command's module has run
MessageDirectDone(h, outcome) ==
    /\ UNCHANGED defaultService
    /\ h \in inflight /\ h.pc = "run_direct"
    /\ \E moduleOutput \in { runModule(h.cmd.module, h.cmd.command, h.cmd.parameters,
                                        outcome) } :
       LET h1 == [h EXCEPT !.moduleOutput = moduleOutput]
       IN  /\ inflight' = inflight \ {h}
           /\ UNCHANGED <<pendingModuleRequests, chatHistory, nreq, issued>>
           /\ IF moduleOutput.threw
              THEN \* the await throws: catch of the direct command
                   /\ arrays' = arrays
                   /\ done' = Respond(h1, Failure(<<"Direct command execution failed: ">>
                                                  \o moduleOutput.error))
              ELSE IF h.sessionId \in DOMAIN chatHistory
              THEN
              LET ref == chatHistory[h.sessionId]
                  e1 == UserEntry(h.userprompt)
                  e2 == AssistantEntry(DirectContent(h.cmd, moduleOutput))
                  arrays1 == Push(arrays, ref, e1)
                  arrays2 == Push(arrays1, ref, e2)
              IN  /\ arrays' = arrays2
                  /\ done' = Respond(
                        [h1 EXCEPT !.pushed = <<Pushed(arrays, ref, e1),
                                                Pushed(arrays1, ref, e2)>>],
                        [NoResponse EXCEPT
                            !.success = TRUE,
                            !.message = <<"<strong>Direct Command Result:</strong><br><pre>">>
                                        \o StringifyPretty(moduleOutput) \o <<"</pre>">>,
                            !.hasModuleResult = TRUE, !.moduleResult = moduleOutput,
                            !.hasHistory = TRUE, !.history = arrays2[ref],
                            !.directCommand = TRUE])
              ELSE \* chatHistory.get(sessionId) is undefined: push throws
                   /\ arrays' = arrays
                   /\ done' = Respond(h1, Failure(<<"Direct command execution failed: ">>
                                                  \o TypeErrorMessage))

\* the final answer of the /message route: push it and send it
MessageFinal(h, text, withResult) ==
    LET entry == AssistantEntry(text)
        ref == h.sessionHistory
        arrays1 == Push(arrays, ref, entry)
    IN  /\ arrays' = arrays1
        /\ done' = Respond(
              [h EXCEPT !.aiResponse = text, !.pushed = Append(@, Pushed(arrays, ref, entry))],
              [NoResponse EXCEPT !.success = TRUE, !.message = toHTML(text),
                                 !.hasModuleResult = withResult,
                                 !.moduleResult = IF withResult THEN h.moduleOutput
                                                  ELSE NoOutput,
                                 !.hasHistory = TRUE, !.history = arrays1[ref]])
        /\ inflight' = inflight \ {h}
        /\ UNCHANGED <<pendingModuleRequests, issued>>

\* the AI backend answers the user's prompt
MessageAiFirst(h, aiResponse) ==
    /\ UNCHANGED defaultService
    /\ h \in inflight /\ h.pc = "ai_first"
    /\ UNCHANGED <<chatHistory, nreq>>
    /\ \E moduleCommand \in { parseModuleCommand(aiResponse) } :
           IF moduleCommand.found
           THEN IF AutoApproved(moduleCommand)
                THEN /\ inflight' = (inflight \ {h}) \cup
                          { [h EXCEPT !.pc = "run_list", !.cmd = moduleCommand,
                                      !.aiResponse = aiResponse,
                                      !.ran = Append(@, Call(moduleCommand, "list"))] }
                     /\ UNCHANGED <<pendingModuleRequests, arrays, done, issued>>
                ELSE /\ Suspend(h, moduleCommand, h.userprompt, aiResponse, <<>>,
                                h.sessionId, <<>>, FirstApprovalMessage)
                     /\ UNCHANGED arrays
           ELSE MessageFinal(h, aiResponse, FALSE)

\* the auto-approved list module has run
MessageListDone(h, outcome) ==
    /\ UNCHANGED defaultService
    /\ h \in inflight /\ h.pc = "run_list"
    /\ \E moduleOutput \in { runModule(h.cmd.module, h.cmd.command, h.cmd.parameters,
                                        outcome) } :
       LET nextPrompt == ContinuationPrompt(h.userprompt, h.cmd.module, h.cmd.command,
                                            moduleOutput)
       IN  IF moduleOutput.threw
           THEN \* the await throws: catch of the route
                /\ inflight' = inflight \ {h}
                /\ done' = Respond([h EXCEPT !.moduleOutput = moduleOutput],
                                   Failure(<<"List module execution failed: ">>
                                           \o moduleOutput.error))
           ELSE /\ inflight' = (inflight \ {h}) \cup
                     { [h EXCEPT !.pc = "ai_after_list", !.moduleOutput = moduleOutput,
                                 !.prompt = nextPrompt, !.prompts = Append(@, nextPrompt),
                                 !.forwarded = getResponse(nextPrompt, SystemLLMPrompt,
                                                           arrays[h.sessionHistory])] }
                /\ UNCHANGED done
    /\ UNCHANGED <<pendingModuleRequests, chatHistory, arrays, nreq, issued>>

\* the AI backend answers the prompt that carries the list result
MessageAiAfterList(h, finalResponse) ==
    /\ UNCHANGED defaultService
    /\ h \in inflight /\ h.pc = "ai_after_list"
    /\ UNCHANGED <<chatHistory, nreq>>
    /\ \E nextModuleCommand \in { parseModuleCommand(finalResponse) } :
           IF nextModuleCommand.found
           THEN /\ Suspend(h, nextModuleCommand, h.userprompt, finalResponse,
                           << [module |-> h.cmd.module, command |-> h.cmd.command,
                               result |-> h.moduleOutput] >>,
                           h.sessionId, toHTML(finalResponse), NextApprovalMessage)
                /\ UNCHANGED arrays
           ELSE MessageFinal(h, finalResponse, TRUE)

\* --------------------------------------------------- POST /approve-module

\* the handler up to its first await, or to its response
ReceiveApprove(requestId, approved) ==
    /\ UNCHANGED defaultService
    /\ nreq < MaxRequests
    /\ nreq' = nreq + 1
    /\ UNCHANGED <<chatHistory, arrays>>
    /\ LET req == [NoRequest EXCEPT !.n = nreq + 1, !.route = "approve",
                                    !.requestId = requestId, !.approved = approved]
       IN  IF requestId = <<>>
           THEN /\ done' = Respond(req, Failure(<<"Missing request ID">>))
                /\ UNCHANGED <<pendingModuleRequests, inflight, issued>>
           ELSE IF requestId \notin DOMAIN pendingModuleRequests
           THEN /\ done' = Respond(req, Failure(<<"Request not found or expired">>))
                /\ UNCHANGED <<pendingModuleRequests, inflight, issued>>
           ELSE
           LET pendingRequest == pendingModuleRequests[requestId]
               k == CHOOSE k \in 1..Len(issued) : issued[k].id = requestId
               req1 == [req EXCEPT !.found = TRUE, !.pendingRequest = pendingRequest]
               cmd == [found |-> TRUE, module |-> pendingRequest.module,
                       command |-> pendingRequest.command,
                       parameters |-> pendingRequest.parameters]
           IN  /\ pendingModuleRequests' = Delete(pendingModuleRequests, requestId)
               /\ issued' = [issued EXCEPT ![k].resolved =
                                Append(@, [n |-> req.n, approved |-> approved])]
               /\ IF ~Truthy(approved)
                  THEN /\ done' = Respond(req1,
                              [NoResponse EXCEPT
                                  !.success = TRUE, !.denied = TRUE,
                                  !.message = <<"Module execution denied by user.">>])
                       /\ UNCHANGED inflight
                  ELSE /\ inflight' = inflight \cup
                            { [req1 EXCEPT !.pc = "run_approved", !.cmd = cmd,
                                           !.ran = <<Call(cmd, "approved")>>] }
                       /\ UNCHANGED done

\* the approved module has run
ApproveRunDone(h, outcome) ==
    /\ UNCHANGED defaultService
    /\ h \in inflight /\ h.pc = "run_approved"
    /\ \E moduleOutput \in { runModule(h.pendingRequest.module, h.pendingRequest.command,
                                        h.pendingRequest.parameters, outcome) } :
       LET pendingRequest == h.pendingRequest
           updatedModuleOutputs ==
               WithResult(pendingRequest.allModuleOutputs, pendingRequest.module,
                          pendingRequest.command, moduleOutput)
           nextPrompt == ContinuationPrompt(pendingRequest.originalPrompt,
                                            pendingRequest.module, pendingRequest.command,
                                            moduleOutput)
       IN  IF moduleOutput.threw
           THEN \* the await throws: catch of the route
                /\ inflight' = inflight \ {h}
                /\ done' = Respond([h EXCEPT !.moduleOutput = moduleOutput],
                                   Failure(<<"Module execution failed: ">>
                                           \o moduleOutput.error))
           ELSE /\ inflight' = (inflight \ {h}) \cup
                     { [h EXCEPT !.pc = "ai_after_approved", !.moduleOutput = moduleOutput,
                                 !.outputs = updatedModuleOutputs,
                                 !.prompt = nextPrompt, !.prompts = Append(@, nextPrompt),
                                 !.forwarded =
                                     getResponse(nextPrompt, SystemLLMPrompt,
                                         HistoryOrEmpty(OrDefault(
                                             pendingRequest.originalSessionId)))] }
                /\ UNCHANGED done
    /\ UNCHANGED <<pendingModuleRequests, chatHistory, arrays, nreq, issued>>

\* the AI backend answers the prompt that carries the approved module's result
ApproveAiAfterRun(h, finalResponse) ==
    /\ UNCHANGED defaultService
    /\ h \in inflight /\ h.pc = "ai_after_approved"
    /\ UNCHANGED <<chatHistory, nreq>>
    /\ \E nextModuleCommand \in { parseModuleCommand(finalResponse) } :
       LET pendingRequest == h.pendingRequest
           sessionId == OrDefault(pendingRequest.originalSessionId)
       IN  IF nextModuleCommand.found
           THEN IF AutoApproved(nextModuleCommand)
                THEN /\ inflight' = (inflight \ {h}) \cup
                          { [h EXCEPT !.pc = "run_list_in_approval",
                                      !.cmd = nextModuleCommand,
                                      !.aiResponse = finalResponse,
                                      !.ran = Append(@, Call(nextModuleCommand,
                                                             "list_in_approval"))] }
                     /\ UNCHANGED <<pendingModuleRequests, arrays, done, issued>>
                ELSE /\ Suspend(h, nextModuleCommand, pendingRequest.originalPrompt,
                                finalResponse, h.outputs,
                                pendingRequest.originalSessionId,
                                toHTML(finalResponse), NextApprovalMessage)
                     /\ UNCHANGED arrays
           ELSE /\ inflight' = inflight \ {h}
                /\ UNCHANGED <<pendingModuleRequests, issued>>
                /\ IF sessionId \in DOMAIN chatHistory
                   THEN
                   LET ref == chatHistory[sessionId]
                       entry == AssistantEntry(finalResponse)
                       arrays1 == Push(arrays, ref, entry)
                   IN  /\ arrays' = arrays1
                       /\ done' = Respond(
                             [h EXCEPT !.aiResponse = finalResponse,
                                       !.pushed = Append(@, Pushed(arrays, ref, entry))],
                             [NoResponse EXCEPT
                                 !.success = TRUE, !.message = toHTML(finalResponse),
                                 !.hasModuleResult = TRUE,
                                 !.moduleResult = h.moduleOutput,
                                 !.hasHistory = TRUE, !.history = arrays1[ref]])
                   ELSE \* chatHistory.get(...) is undefined: push throws
                        /\ arrays' = arrays
                        /\ done' = Respond([h EXCEPT !.aiResponse = finalResponse],
                                           Failure(<<"Module execution failed: ">>
                                                   \o TypeErrorMessage))

\* the list module auto-approved inside the approval flow has run
ApproveListDone(h, outcome) ==
    /\ UNCHANGED defaultService
    /\ h \in inflight /\ h.pc = "run_list_in_approval"
    /\ \E listModuleOutput \in { runModule(h.cmd.module, h.cmd.command, h.cmd.parameters,
                                            outcome) } :
       LET newUpdatedModuleOutputs ==
               WithResult(h.outputs, h.cmd.module, h.cmd.command, listModuleOutput)
           nextPrompt == ContinuationPrompt(h.pendingRequest.originalPrompt, h.cmd.module,
                                            h.cmd.command, listModuleOutput)
       IN  IF listModuleOutput.threw
           THEN \* the await throws: catch of the route
                /\ inflight' = inflight \ {h}
                /\ done' = Respond([h EXCEPT !.moduleOutput = listModuleOutput],
                                   Failure(<<"List module execution failed: ">>
                                           \o listModuleOutput.error))
           ELSE /\ inflight' = (inflight \ {h}) \cup
                     { [h EXCEPT !.pc = "ai_after_list_in_approval",
                                 !.moduleOutput = listModuleOutput,
                                 !.outputs = newUpdatedModuleOutputs,
                                 !.prompt = nextPrompt, !.prompts = Append(@, nextPrompt),
                                 !.forwarded =
                                     getResponse(nextPrompt, SystemLLMPrompt,
                                         HistoryOrEmpty(
                                             h.pendingRequest.originalSessionId))] }
                /\ UNCHANGED done
    /\ UNCHANGED <<pendingModuleRequests, chatHistory, arrays, nreq, issued>>

\* the AI backend answers the prompt that carries that list result
ApproveAiAfterList(h, nextFinalResponse) ==
    /\ UNCHANGED defaultService
    /\ h \in inflight /\ h.pc = "ai_after_list_in_approval"
    /\ UNCHANGED <<chatHistory, arrays, nreq>>
    /\ \E yetAnotherModuleCommand \in { parseModuleCommand(nextFinalResponse) } :
           IF yetAnotherModuleCommand.found
           THEN Suspend(h, yetAnotherModuleCommand, h.pendingRequest.originalPrompt,
                        nextFinalResponse, h.outputs,
                        h.pendingRequest.originalSessionId,
                        toHTML(nextFinalResponse), NextApprovalMessage)
           ELSE /\ done' = Respond(
                      [h EXCEPT !.aiResponse = nextFinalResponse],
                      [NoResponse EXCEPT !.success = TRUE,
                                         !.message = toHTML(nextFinalResponse),
                                         !.hasModuleResult = TRUE,
                                         !.moduleResult = h.moduleOutput])
                /\ inflight' = inflight \ {h}
                /\ UNCHANGED <<pendingModuleRequests, issued>>

\* --------------------------------------------------- POST /clear-history

ClearHistory(sid) ==
    /\ UNCHANGED defaultService
    /\ nreq < MaxRequests
    /\ nreq' = nreq + 1
    /\ chatHistory' = Delete(chatHistory, WithDefault(sid))
    /\ done' = Respond([NoRequest EXCEPT !.n = nreq + 1, !.route = "clear",
                                         !.sessionId = WithDefault(sid)],
                       [NoResponse EXCEPT !.success = TRUE,
                                          !.message = <<"Chat history cleared">>])
    /\ UNCHANGED <<pendingModuleRequests, arrays, inflight, issued>>

\* ------------------------------------------------------------------ spec

NextIn(I) ==
    \/ \E userprompt \in I.prompts, typoftask \in I.tasks, sid \in I.sids :
          ReceiveMessage(userprompt, typoftask, sid)
    \/ \E h \in inflight, outcome \in I.outcomes : MessageDirectDone(h, outcome)
    \/ \E h \in inflight, text \in I.texts : MessageAiFirst(h, text)
    \/ \E h \in inflight, outcome \in I.outcomes : MessageListDone(h, outcome)
    \/ \E h \in inflight, text \in I.texts : MessageAiAfterList(h, text)
    \/ \E requestId \in I.ids \cup { issued[k].id : k \in 1..Len(issued) },
          approved \in I.approvals :
          ReceiveApprove(requestId, approved)
    \/ \E h \in inflight, outcome \in I.outcomes : ApproveRunDone(h, outcome)
    \/ \E h \in inflight, text \in I.texts : ApproveAiAfterRun(h, text)
    \/ \E h \in inflight, outcome \in I.outcomes : ApproveListDone(h, outcome)
    \/ \E h \in inflight, text \in I.texts : ApproveAiAfterList(h, text)
    \/ \E sid \in I.sids : ClearHistory(sid)

Next == NextIn(CoreInputs)

Spec == Init /\ [][Next]_vars

\* GET /history/:sessionId: the array the map holds for the session, or []
History(sid) ==
    IF sid \in DOMAIN chatHistory THEN arrays[chatHistory[sid]] ELSE <<>>

\* Clients that name their session: one leaves sessionId out, one sends "".
SessionInputs ==
    [ prompts |-> { Hi, ListDirective },
      tasks |-> { "llm" },
      sids |-> { Absent, "" },
      ids |-> { BogusId },
      approvals |-> { "true" },
      outcomes |-> { "returns" },
      texts |-> { Answer, ListDirective } ]

NextSessions == NextIn(SessionInputs)

SpecSessions == Init /\ [][NextSessions]_vars

\* Clients that also ask for a task type the server does not know.
TaskInputs ==
    [ prompts |-> { Hi, WebDirective },
      tasks |-> { "llm", "chat" },
      sids |-> { Absent },
      ids |-> { BogusId },
      approvals |-> { "true" },
      outcomes |-> { "returns" },
      texts |-> { Answer, ListDirective } ]

NextTasks == NextIn(TaskInputs)

SpecTasks == Init /\ [][NextTasks]_vars

\* Module handlers that may throw an Error or throw no value at all.
FaultInputs ==
    [ prompts |-> { Hi, ListDirective },
      tasks |-> { "llm" },
      sids |-> { Absent },
      ids |-> { },
      approvals |-> { "true" },
      outcomes |-> { "returns", "throws", "throws_nothing" },
      texts |-> { Answer, ListDirective } ]

NextFaults == NextIn(FaultInputs)

SpecFaults == Init /\ [][NextFaults]_vars

\* Texts of the form "/run module X Y Z...": X and Y are tokens without
\* whitespace, Z is the rest of the text or nothing.
ModuleTokens == { ListModule, <<"a","-","b">> }
CommandTokens == { <<"g","o">>, <<"g","o","!">> }
ParameterTexts == { <<>>, <<"x"," ","y">> }

DirectiveText(X, Y, Z) ==
    <<"/","r","u","n"," ","m","o","d","u","l","e"," ">> \o X \o <<" ">> \o Y
    \o (IF Z = <<>> THEN <<>> ELSE <<" ">> \o Z)

ParserTexts ==
    { DirectiveText(X, Y, Z) : X \in ModuleTokens, Y \in CommandTokens, Z \in ParameterTexts }

\* "/run module websearch.search foo"
DottedDirective ==
    <<"/","r","u","n"," ","m","o","d","u","l","e"," ","w","e","b","s","e","a","r","c","h",
      ".","s","e","a","r","c","h"," ","f","o","o">>

\* The parser applied to user texts of that form: the requests that carry
\* them, the direct command's run and the AI backend's answer to the texts
\* in which the parser finds no directive.
NextParser ==
    \/ \E text \in ParserTexts \cup { DottedDirective } :
          ReceiveMessage(text, "llm", Absent)
    \/ \E h \in inflight : MessageDirectDone(h, "returns")
    \/ \E h \in inflight : MessageAiFirst(h, Answer)

SpecParser == Init /\ [][NextParser]_vars

\* Texts in which the directive grammar matches nowhere: the empty text, a
\* directive cut off before its command, and one whose keywords are glued
\* together.
MissingCommandText == <<"/","r","u","n"," ","m","o","d","u","l","e"," ","l","i","s","t">>
GluedText == <<"/","r","u","n","m","o","d","u","l","e"," ","a"," ","b">>
NoMatchTexts == { <<>>, MissingCommandText, GluedText }

\* The parser applied to such texts, sent by the user and returned by the
\* AI backend.
NextNoMatch ==
    \/ \E text \in NoMatchTexts : ReceiveMessage(text, "llm", Absent)
    \/ \E h \in inflight, text \in NoMatchTexts : MessageAiFirst(h, text)

SpecNoMatch == Init /\ [][NextNoMatch]_vars

\* Direct commands that name a module the modules directory does not hold,
\* a command the list module does not have, and the list command.
UnknownModuleDirective == DirectiveText(<<"n","o","s","u","c","h">>, <<"g","o">>, <<>>)
UnknownCommandDirective == DirectiveText(ListModule, <<"g","o">>, <<>>)

NextRegistry ==
    \/ \E text \in { UnknownModuleDirective, UnknownCommandDirective, ListDirective } :
          ReceiveMessage(text, "llm", Absent)
    \/ \E h \in inflight : MessageDirectDone(h, "returns")

SpecRegistry == Init /\ [][NextRegistry]_vars

\* What getOpenAIResponse returns when the API key is not configured
ConfigErrorText ==
    <<"E","r","r","o","r",":"," ","O","p","e","n","A","I"," ","A","P","I"," ","k","e",
      "y"," ","i","s"," ","n","o","t"," ","c","o","n","f","i","g","u","r","e","d",".",
      " ","P","l","e","a","s","e"," ","s","e","t"," ","a"," ","v","a","l","i","d"," ",
      "O","P","E","N","A","I","_","A","P","I","_","K","E","Y"," ","i","n"," ",".","E",
      "N","V"," ","f","i","l","e",".">>

\* What getOpenAIResponse returns when the provider call throws an error
\* with this message
CallFailedText(message) ==
    <<"E","r","r","o","r",":"," ","O","p","e","n","A","I"," ","A","P","I"," ","c","a",
      "l","l"," ","f","a","i","l","e","d"," ","-"," ">>
    \o message \o
    <<"."," ","P","l","e","a","s","e"," ","c","h","e","c","k"," ","y","o","u","r"," ",
      "A","P","I"," ","k","e","y"," ","c","o","n","f","i","g","u","r","a","t","i","o",
      "n",".">>

\* error.message of a failed connection
ConnectionError == <<"C","o","n","n","e","c","t","i","o","n"," ","e","r","r","o","r",".">>

BackendErrorTexts == { ConfigErrorText, CallFailedText(ConnectionError) }

\* An AI backend that answers with a list directive or fails.
BackendInputs ==
    [ prompts |-> { Hi, ListDirective },
      tasks |-> { "llm" },
      sids |-> { Absent },
      ids |-> { },
      approvals |-> { "true" },
      outcomes |-> { "returns" },
      texts |-> BackendErrorTexts \cup { ListDirective } ]

NextBackend == NextIn(BackendInputs)

SpecBackend == Init /\ [][NextBackend]_vars

\* "run module list listAllModules": the directive without its slash
SlashlessText == Tail(ListDirective)

\* "so /run module list listAllModules": the directive later in the text
EmbeddedText == <<"s","o"," ">> \o ListDirective

\* User messages that hold the directive at the start, without the slash,
\* later in the text, and not at all.
NextDirect ==
    \/ \E text \in { ListDirective, SlashlessText, EmbeddedText, Hi } :
          ReceiveMessage(text, "llm", Absent)
    \/ \E h \in inflight : MessageDirectDone(h, "returns")
    \/ \E h \in inflight : MessageAiFirst(h, Answer)

SpecDirect == Init /\ [][NextDirect]_vars

\* Approvals, repeated and concurrent, of a websearch directive whose handler
\* returns or throws and whose continuation the AI backend answers or fails.
NextRetry ==
    \/ ReceiveMessage(Hi, "llm", Absent)
    \/ \E h \in inflight : MessageAiFirst(h, WebDirective)
    \/ \E requestId \in { issued[k].id : k \in 1..Len(issued) },
          approved \in { "true", "false" } :
          ReceiveApprove(requestId, approved)
    \/ \E h \in inflight, outcome \in { "returns", "throws", "throws_nothing" } :
          ApproveRunDone(h, outcome)
    \/ \E h \in inflight, text \in { Answer, CallFailedText(ConnectionError) } :
          ApproveAiAfterRun(h, text)

SpecRetry == Init /\ [][NextRetry]_vars

\* values of the `approved` field: the booleans, the field absent, null, the
\* number 1 and the string "false"
ApprovedValues == { "true", "false", "undefined", "null", "1", "\"false\"" }

\* Decisions on a suspended websearch directive with each of these values.
NextDecision ==
    \/ ReceiveMessage(Hi, "llm", Absent)
    \/ \E h \in inflight : MessageAiFirst(h, WebDirective)
    \/ \E requestId \in { issued[k].id : k \in 1..Len(issued) },
          approved \in ApprovedValues :
          ReceiveApprove(requestId, approved)
    \/ \E h \in inflight : ApproveRunDone(h, "returns")
    \/ \E h \in inflight : ApproveAiAfterRun(h, Answer)

SpecDecision == Init /\ [][NextDecision]_vars

\* a second user text, and a second session
Bye == <<"b","y","e">>
OtherSession == "s1"

\* Chains started by two user texts in two sessions, continued through
\* approvals and auto-approved list steps.
NextProvenance ==
    \/ \E turn \in { <<Hi, Absent>>, <<Bye, OtherSession>> } :
          ReceiveMessage(turn[1], "llm", turn[2])
    \/ \E h \in inflight, text \in { ListDirective, WebDirective } : MessageAiFirst(h, text)
    \/ \E h \in inflight : MessageListDone(h, "returns")
    \/ \E h \in inflight : MessageAiAfterList(h, WebDirective)
    \/ \E requestId \in { issued[k].id : k \in 1..Len(issued) } :
          ReceiveApprove(requestId, "true")
    \/ \E h \in inflight : ApproveRunDone(h, "returns")
    \/ \E h \in inflight, text \in { ListDirective, WebDirective } :
          ApproveAiAfterRun(h, text)
    \/ \E h \in inflight : ApproveListDone(h, "returns")
    \/ \E h \in inflight : ApproveAiAfterList(h, WebDirective)

SpecProvenance == Init /\ [][NextProvenance]_vars

\* Turns whose awaited calls all return and that take the longest path of
\* their route: the AI backend asks for the list module, then for a
\* websearch; after the approved websearch it asks for the list module again
\* and then answers.
NextTurns ==
    \/ \E userprompt \in { Hi, ListDirective } : ReceiveMessage(userprompt, "llm", Absent)
    \/ \E h \in inflight : MessageDirectDone(h, "returns")
    \/ \E h \in inflight : MessageAiFirst(h, ListDirective)
    \/ \E h \in inflight : MessageListDone(h, "returns")
    \/ \E h \in inflight : MessageAiAfterList(h, WebDirective)
    \/ \E requestId \in { issued[k].id : k \in 1..Len(issued) } :
          ReceiveApprove(requestId, "true")
    \/ \E h \in inflight : ApproveRunDone(h, "returns")
    \/ \E h \in inflight : ApproveAiAfterRun(h, ListDirective)
    \/ \E h \in inflight : ApproveListDone(h, "returns")
    \/ \E h \in inflight : ApproveAiAfterList(h, Answer)

\* a handler in flight resumes after its await
ResumeTurns ==
    \E h \in inflight :
        \/ MessageDirectDone(h, "returns")
        \/ MessageAiFirst(h, ListDirective)
        \/ MessageListDone(h, "returns")
        \/ MessageAiAfterList(h, WebDirective)
        \/ ApproveRunDone(h, "returns")
        \/ ApproveAiAfterRun(h, ListDirective)
        \/ ApproveListDone(h, "returns")
        \/ ApproveAiAfterList(h, Answer)

\* the event loop resumes a handler whose awaited call has returned
SpecTurns == Init /\ [][NextTurns]_vars /\ WF_vars(ResumeTurns)

\* Requests with a field missing or a requestId that is not pending, among
\* turns that suspend and are approved.
NextRejected ==
    \/ \E userprompt \in { <<>>, Hi }, typoftask \in { "", "llm" },
          sid \in { Absent, OtherSession } :
          ReceiveMessage(userprompt, typoftask, sid)
    \/ \E h \in inflight, text \in { Answer, WebDirective } : MessageAiFirst(h, text)
    \/ \E requestId \in { <<>>, BogusId } \cup { issued[k].id : k \in 1..Len(issued) } :
          ReceiveApprove(requestId, "true")
    \/ \E h \in inflight : ApproveRunDone(h, "returns")
    \/ \E h \in inflight : ApproveAiAfterRun(h, Answer)

SpecRejected == Init /\ [][NextRejected]_vars

\* The adapters, on sessions that already hold some history.
Services == { "openai", "gemini", "ollama" }

StoredEntry(i) ==
    [role |-> IF i % 2 = 1 THEN "user" ELSE "assistant", content |-> <<"m", ToString(i)>>]

StoredHistory(n) == [ i \in 1..n |-> StoredEntry(i) ]

\* lengths of the history the default session holds at the start
StoredLengths == { 0, 9, 11 }

InitAdapters ==
    /\ pendingModuleRequests = << >>
    /\ \E n \in StoredLengths :
          IF n = 0
          THEN chatHistory = << >> /\ arrays = << >>
          ELSE chatHistory = (DefaultSession :> 1) /\ arrays = << StoredHistory(n) >>
    /\ inflight = {}
    /\ done = NoRequest
    /\ nreq = 0
    /\ defaultService \in Services
    /\ issued = << >>

NextAdapters ==
    \/ ReceiveMessage(Hi, "llm", Absent)
    \/ \E h \in inflight, text \in { Answer, WebDirective } : MessageAiFirst(h, text)
    \/ \E requestId \in { issued[k].id : k \in 1..Len(issued) } :
          ReceiveApprove(requestId, "true")
    \/ \E h \in inflight : ApproveRunDone(h, "returns")
    \/ \E h \in inflight : ApproveAiAfterRun(h, Answer)
    \/ ClearHistory(Absent)

SpecAdapters == InitAdapters /\ [][NextAdapters]_vars

\* the cap on the module executions of one chain that the design asks for
MaxChainDepth == 3

\* ---------------------------------------------------------------- claims

Requests == inflight \cup {done}

NotFound == Failure(<<"Request not found or expired">>)

\* the generation of requestId id, if any
IssuedAs(id) == { k \in 1..Len(issued) : issued[k].id = id }

ResolvedExactlyOnce ==
    /\ \A k \in 1..Len(issued) : Len(issued[k].resolved) <= 1
    /\ (done.route = "approve" /\ done.requestId # <<>>) =>
          IF \E k \in IssuedAs(done.requestId) :
                issued[k].resolved # <<>> /\ issued[k].resolved[1].n = done.n
          THEN /\ done.resp # NotFound
               /\ done.resp.denied \/ done.ran # <<>>
          ELSE /\ done.resp = NotFound
               /\ done.ran = <<>> /\ done.prompts = <<>> /\ done.pushed = <<>>
    /\ \A h \in inflight : h.route = "approve" =>
          \E k \in IssuedAs(h.requestId) :
              issued[k].resolved # <<>> /\ issued[k].resolved[1].n = h.n

\* a second call with a requestId that an earlier call resolved
SecondCallNotFound ==
    /\ done.route = "approve" /\ done.resp = NotFound
    /\ \E k \in IssuedAs(done.requestId) :
          issued[k].resolved # <<>> /\ issued[k].resolved[1].n < done.n

\* C3: of the /approve-module requests for one requestId that are being
\* served at the same time, at most one has passed the existence check, and
\* while it waits at an await the entry is already out of the table.
ConcurrentApprovalsResolveOnce ==
    /\ \A r1 \in Requests, r2 \in Requests :
          ( /\ r1.route = "approve" /\ r2.route = "approve"
            /\ r1.requestId = r2.requestId /\ r1.found /\ r2.found ) => r1.n = r2.n
    /\ \A h \in inflight : h.route = "approve" =>
          h.found /\ h.requestId \notin DOMAIN pendingModuleRequests

\* a second call arrived while the first was waiting for the module or the AI
SecondCallWhileFirstInFlight ==
    \E h \in inflight :
        /\ h.route = "approve" /\ h.found
        /\ done.route = "approve" /\ done.requestId = h.requestId
        /\ done.n > h.n /\ done.resp = NotFound

\* C4: the table holds exactly the requestIds generated by a suspension and
\* not yet named by an /approve-module call, each with the entry stored at
\* its suspension; a request that stored an entry answered requiresApproval
\* with that requestId and the stored module and command, and no request
\* stores an entry otherwise.
PendingTableExact ==
    /\ DOMAIN pendingModuleRequests =
          { issued[k].id : k \in { j \in 1..Len(issued) : issued[j].resolved = <<>> } }
    /\ \A k \in 1..Len(issued) :
          issued[k].resolved = <<>> => pendingModuleRequests[issued[k].id] = issued[k].entry
    /\ \A h \in inflight : h.created = <<>>
    /\ done.resp.requiresApproval <=> done.created # <<>>
    /\ done.created # <<>> =>
          /\ done.created = << done.resp.requestId >>
          /\ \E k \in IssuedAs(done.resp.requestId) :
                /\ issued[k].by = done.n
                /\ issued[k].entry.module = done.resp.module
                /\ issued[k].entry.command = done.resp.command

\* two requestIds were generated, one is resolved and one is pending
OnePendingOneResolved ==
    /\ Len(issued) >= 2
    /\ \E k \in 1..Len(issued) : issued[k].resolved # <<>>
    /\ \E k \in 1..Len(issued) : issued[k].id \in DOMAIN pendingModuleRequests

\* C5: no PendingApproval is created for a directive that names the module
\* 'list', and no requiresApproval response names it.
ListNeverSuspends ==
    /\ \A k \in 1..Len(issued) : issued[k].entry.module # <<"l","i","s","t">>
    /\ done.resp.requiresApproval => done.resp.module # <<"l","i","s","t">>

\* C6: an /approve-module request with approved = false is answered in the
\* step that receives it; if its requestId is pending, the entry is removed
\* and the answer is {success:true, denied:true}, otherwise the answer is
\* "Request not found or expired" and the table is unchanged; in both cases
\* no module runs, no prompt goes to the AI backend, no entry is stored, no
\* history array changes and no other request moves.
DenialStopsTheLoop ==
    [][ ( /\ nreq' = nreq + 1
          /\ \E r \in inflight' \cup {done'} :
                /\ r.n = nreq' /\ r.route = "approve"
                /\ r.approved = "false" /\ r.requestId # <<>> )
        => ( /\ done'.n = nreq'
             /\ done'.ran = <<>> /\ done'.prompts = <<>>
             /\ done'.created = <<>> /\ done'.pushed = <<>>
             /\ inflight' = inflight
             /\ arrays' = arrays /\ chatHistory' = chatHistory
             /\ Len(issued') = Len(issued)
             /\ IF done'.requestId \in DOMAIN pendingModuleRequests
                THEN /\ pendingModuleRequests' =
                           [ id \in DOMAIN pendingModuleRequests \ {done'.requestId} |->
                               pendingModuleRequests[id] ]
                     /\ done'.resp = [NoResponse EXCEPT
                           !.sent = TRUE, !.success = TRUE, !.denied = TRUE,
                           !.message = <<"Module execution denied by user.">>]
                ELSE /\ pendingModuleRequests' = pendingModuleRequests
                     /\ done'.resp = NotFound ) ]_vars

\* a requestId was denied, and denied a second time
DeniedTwice ==
    /\ done.route = "approve" /\ done.approved = "false" /\ done.resp = NotFound
    /\ \E k \in IssuedAs(done.requestId) :
          /\ issued[k].resolved # <<>>
          /\ issued[k].resolved[1].approved = "false"
          /\ issued[k].resolved[1].n < done.n

\* the user text of a request holds a directive
IsDirect(r) ==
    /\ r.route = "message" /\ r.userprompt # <<>> /\ r.typoftask # ""
    /\ parseModuleCommand(r.userprompt).found

\* C7: a /message request whose user text matches the directive grammar
\* runs that directive at once through the registry, sends no prompt to the
\* AI backend, stores no PendingApproval, and is answered directCommand:true.
DirectCommandRunsDirectly ==
    \A r \in Requests : IsDirect(r) =>
        /\ r.prompts = <<>> /\ r.created = <<>>
        /\ Len(r.ran) = 1 /\ r.ran[1].site = "direct"
        /\ r.ran[1].module = parseModuleCommand(r.userprompt).module
        /\ r.ran[1].command = parseModuleCommand(r.userprompt).command
        /\ r.ran[1].parameters = parseModuleCommand(r.userprompt).parameters
        /\ r.resp.sent => r.resp.directCommand /\ r.resp.success

\* C8: a direct command pushes two entries next to each other on the
\* session's array, the user entry with the raw text and then the assistant
\* entry with the module result, before it answers, and the history of the
\* answer holds them.
DirectCommandRecordsTwoEntries ==
    (IsDirect(done) /\ done.resp.sent) =>
        /\ Len(done.pushed) = 2
        /\ done.pushed[1].entry = [role |-> "user", content |-> done.userprompt]
        /\ done.pushed[2].entry =
              [role |-> "assistant",
               content |-> DirectContent(done.cmd, done.moduleOutput)]
        /\ done.pushed[2].ref = done.pushed[1].ref
        /\ done.pushed[2].index = done.pushed[1].index + 1
        /\ done.resp.hasHistory
        /\ Len(done.resp.history) = done.pushed[2].index
        /\ done.resp.history[done.pushed[1].index] = done.pushed[1].entry
        /\ done.resp.history[done.pushed[2].index] = done.pushed[2].entry

FinalResponseRecorded ==
    ( /\ done.route \in {"message", "approve"} /\ done.resp.sent
      /\ done.prompts # <<>> /\ ~parseModuleCommand(done.aiResponse).found )
    => /\ done.pushed # <<>>
       /\ done.pushed[Len(done.pushed)].entry =
             [role |-> "assistant", content |-> done.aiResponse]

\* the module run first by request r (the direct command or the approved
\* directive) came back with {success: true, result}
ExecutedOk(r) ==
    /\ r.ran # <<>> /\ r.ran[1].invoked
    /\ \/ r.ran[1].site = "direct" /\ r.moduleOutput.success
       \/ /\ r.ran[1].site = "approved"
          /\ Len(r.outputs) > Len(r.pendingRequest.allModuleOutputs)
          /\ r.outputs[Len(r.pendingRequest.allModuleOutputs) + 1].result.success

\* C11: a request that ran a module successfully, as a direct command or
\* after an approval, has pushed an assistant entry on the session's array
\* by the time it answers.
SuccessfulExecutionRecorded ==
    (done.resp.sent /\ ExecutedOk(done)) =>
        \E i \in 1..Len(done.pushed) : done.pushed[i].entry.role = "assistant"

\* sub occurs in t as a run of consecutive elements
Contains(t, sub) ==
    \E i \in 0..(Len(t) - Len(sub)) : \A j \in 1..Len(sub) : t[i + j] = sub[j]

\* C12: the continuation prompt an /approve-module request sends to the AI
\* backend holds the original user prompt and the result of every module
\* run so far in the chain, the one just run included.
ContinuationPromptHasAllResults ==
    \A r \in Requests : (r.route = "approve" /\ r.prompts # <<>>) =>
        /\ r.prompt = r.prompts[Len(r.prompts)]
        /\ Contains(r.prompt, r.pendingRequest.originalPrompt)
        /\ \A j \in 1..Len(r.outputs) :
              Contains(r.prompt, Stringify(r.outputs[j].result))

\* C13: no suspension is produced for a chain that already holds
\* MaxChainDepth module executions.
ChainDepthBounded ==
    \A k \in 1..Len(issued) : Len(issued[k].entry.allModuleOutputs) < MaxChainDepth

\* C15: of two /message turns on one session array, the entries of the turn
\* submitted first all lie before the entries of the turn submitted second.
HistoryInSubmissionOrder ==
    \A r1 \in Requests, r2 \in Requests :
        ( /\ r1.route = "message" /\ r2.route = "message" /\ r1.n < r2.n ) =>
            \A i \in 1..Len(r1.pushed), j \in 1..Len(r2.pushed) :
                r1.pushed[i].ref = r2.pushed[j].ref =>
                    r1.pushed[i].index < r2.pushed[j].index

\* C19: every module handler invoked for a directive that the model
\* proposed, the 'list' module included, is invoked by an /approve-module
\* request that the user approved.
EveryInvocationAuthorized ==
    \A r \in Requests : \A i \in 1..Len(r.ran) :
        (r.ran[i].invoked /\ r.ran[i].site # "direct") =>
            /\ r.ran[i].site = "approved"
            /\ r.route = "approve" /\ r.approved = "true"

\* the session a request works for: the one named in its body or, for an
\* approval, the one recorded in the PendingApproval
SessionOf(r) == IF r.route = "approve" THEN r.pendingRequest.originalSessionId
                ELSE r.sessionId

\* C14: an entry that a request pushed for session A lies in no array that
\* GET /history/B returns for a session B other than A; the assistant entry
\* at the end of an approved chain lies in the array of the session recorded
\* in the PendingApproval.
SessionIsolation ==
    \A r \in Requests : \A i \in 1..Len(r.pushed) :
        \A B \in DOMAIN chatHistory :
            ( /\ chatHistory[B] = r.pushed[i].ref
              /\ r.pushed[i].index <= Len(History(B))
              /\ History(B)[r.pushed[i].index] = r.pushed[i].entry ) => B = SessionOf(r)

\* C16: a /message request whose typoftask is present and is not "llm" runs
\* no module and is answered {success:false, "Unknown task type"}, whatever
\* its user text.
UnknownTaskRejected ==
    \A r \in Requests :
        (r.route = "message" /\ r.userprompt # <<>> /\ r.typoftask \notin {"", "llm"}) =>
            /\ r.ran = <<>>
            /\ r.resp.sent => r.resp = [NoResponse EXCEPT
                                          !.sent = TRUE,
                                          !.message = <<"Unknown task type">>]

\* the module run first by request r (the direct command or the approved
\* directive) failed: runModule came back with {error}
ModuleFailed(r) ==
    /\ r.ran # <<>>
    /\ \/ r.ran[1].site = "direct" /\ r.pc = "done" /\ r.moduleOutput.error # <<>>
       \/ /\ r.ran[1].site = "approved"
          /\ Len(r.outputs) > Len(r.pendingRequest.allModuleOutputs)
          /\ r.outputs[Len(r.pendingRequest.allModuleOutputs) + 1].result.error # <<>>

\* C17: a request whose module run failed, as a direct command or after an
\* approval, is answered with success:false.
ErrorsSurfaceAsFailure ==
    (done.resp.sent /\ ModuleFailed(done)) => ~done.resp.success

\* the positions at which a handler waits for runModule
RunPositions == { "run_direct", "run_list", "run_approved", "run_list_in_approval" }

\* C18: whatever the handler did, runModule comes back with a value, either
\* {success: true, result} or {error}, and never with an exception; an
\* approved request then has its entry out of the table and has sent a
\* continuation prompt that carries that value.
HandlerFailureContained ==
    \A r \in Requests : (r.ran # <<>> /\ r.pc \notin RunPositions) =>
        /\ ~r.moduleOutput.threw
        /\ r.moduleOutput.success \/ r.moduleOutput.error # <<>>
        /\ r.route = "approve" =>
              /\ r.requestId \notin DOMAIN pendingModuleRequests
              /\ r.prompts # <<>>
              /\ Len(r.outputs) > Len(r.pendingRequest.allModuleOutputs)
              /\ Contains(r.prompts[1],
                    Stringify(r.outputs[Len(r.pendingRequest.allModuleOutputs) + 1].result))

\* C20: for a user text "/run module X Y Z..." with X and Y free of
\* whitespace, parseModuleCommand finds the directive with module X, command
\* Y and parameters Z..., the parameters being empty when nothing follows Y.
ParserReturnsTokens ==
    \A r \in Requests : r.route = "message" =>
        \A X \in ModuleTokens, Y \in CommandTokens, Z \in ParameterTexts :
            r.userprompt = DirectiveText(X, Y, Z) =>
                /\ r.ran # <<>> /\ r.ran[1].site = "direct"
                /\ r.ran[1].module = X
                /\ r.ran[1].command = Y
                /\ r.ran[1].parameters = Z

\* C21: the user text "/run module websearch.search foo" is parsed as module
\* websearch, command search, parameters foo.
DottedDirectiveSplit ==
    \A r \in Requests : (r.route = "message" /\ r.userprompt = DottedDirective) =>
        /\ r.ran # <<>> /\ r.ran[1].site = "direct"
        /\ r.ran[1].module = <<"w","e","b","s","e","a","r","c","h">>
        /\ r.ran[1].command = <<"s","e","a","r","c","h">>
        /\ r.ran[1].parameters = <<"f","o","o">>

\* C22: on a text in which the directive grammar matches nowhere, the empty
\* text included, parseModuleCommand returns null, for the user's text and
\* for the model's text alike: the request runs no module and stores no
\* PendingApproval, the user's text goes to the AI backend and the model's
\* text is the final answer.
NoMatchReturnsNull ==
    \A r \in Requests : (r.route = "message" /\ r.userprompt \in NoMatchTexts) =>
        /\ r.cmd = [found |-> FALSE, module |-> <<>>, command |-> <<>>, parameters |-> <<>>]
        /\ r.ran = <<>> /\ r.created = <<>>
        /\ r.userprompt # <<>> => r.prompts = <<r.userprompt>>
        /\ (r.pc = "done" /\ r.userprompt # <<>>) =>
              /\ r.aiResponse \in NoMatchTexts
              /\ r.resp.success /\ ~r.resp.requiresApproval
              /\ r.resp.message = toHTML(r.aiResponse)

\* a cut-off directive from the user was answered with an empty model text
NoMatchOnBothSides ==
    /\ done.route = "message" /\ done.userprompt = MissingCommandText
    /\ done.resp.success /\ done.aiResponse = <<>> /\ Len(done.pushed) = 2

\* C23: running a module that the registry does not hold fails with an
\* error other than the command-not-found error that a missing command of
\* an existing module gets.
RegistryErrorsDistinguished ==
    \A r \in Requests :
        ( /\ r.route = "message" /\ r.pc = "done" /\ r.ran # <<>>
          /\ r.ran[1].module \notin DOMAIN Registry ) =>
            /\ r.moduleOutput.error # <<>>
            /\ r.moduleOutput.error #
                  <<"Command \"">> \o r.ran[1].command \o <<"\" not found in \"">>
                  \o r.ran[1].module \o <<"\"">>

\* C24: when the AI backend answers a prompt with its error text, the
\* parser finds no directive in it and the request ends there: it has sent
\* its response, it runs no module after that answer and it stores no
\* PendingApproval; unless the push on the history fails, the response
\* carries the error text as the assistant's message.
BackendErrorEndsTurn ==
    \A r \in Requests : (r.prompts # <<>> /\ r.aiResponse \in BackendErrorTexts) =>
        /\ r \notin inflight
        /\ r.resp.sent /\ ~r.resp.requiresApproval
        /\ r.created = <<>>
        /\ Len(r.ran) = IF r.route = "message" THEN Len(r.prompts) - 1 ELSE Len(r.prompts)
        /\ r.resp.success => r.resp.message = <<"<p>">> \o r.aiResponse \o <<"</p>">>

\* the backend failed on the first prompt of one turn and on the
\* continuation prompt of an approved module
BackendFailedAfterApproval ==
    /\ done.route = "approve" /\ done.ran # <<>> /\ done.resp.success
    /\ done.aiResponse = CallFailedText(ConnectionError)

\* C25: the PendingApproval a request has just stored holds, in order, the
\* triples of the PendingApproval that the request resolved (none for
\* /message) followed by one {module, command, result} triple for each
\* module the request itself ran, none dropped and none duplicated.
PriorResultsAccumulate ==
    \A k \in 1..Len(issued) : issued[k].by = done.n =>
        issued[k].entry.allModuleOutputs =
            (IF done.route = "approve" THEN done.pendingRequest.allModuleOutputs ELSE <<>>)
            \o [ i \in 1..Len(done.ran) |->
                   [module |-> done.ran[i].module, command |-> done.ran[i].command,
                    result |-> runModule(done.ran[i].module, done.ran[i].command,
                                         done.ran[i].parameters, "returns")] ]

\* a chain of list, websearch and list again has reached its second
\* PendingApproval
ThreeResultsStored ==
    \E k \in 1..Len(issued) :
        /\ issued[k].by = done.n /\ done.route = "approve"
        /\ Len(issued[k].entry.allModuleOutputs) = 3
        /\ issued[k].entry.allModuleOutputs[1].module = ListModule
        /\ issued[k].entry.allModuleOutputs[2].module = WebsearchModule
        /\ issued[k].entry.allModuleOutputs[3].module = ListModule

\* the history a handler that has just called the AI backend passed to it
PassedHistory(h) ==
    IF h.route = "message" THEN arrays[h.sessionHistory]
    ELSE HistoryOrEmpty(OrDefault(h.pendingRequest.originalSessionId))

\* a provider request that carries the prompt and these history entries
Carries(sent, prompt, entries) ==
    \/ sent = [messages |-> <<[role |-> "system", content |-> SystemLLMPrompt]>>
                            \o entries \o <<[role |-> "user", content |-> prompt]>>,
               contents |-> <<>>]
    \/ /\ entries # <<>>
       /\ sent = [messages |-> <<>>,
                  contents |-> SystemLLMPrompt \o <<"\n\nChat History:\n">>
                               \o JoinLines([ i \in 1..Len(entries) |->
                                                HistoryLine(entries[i]) ])
                               \o <<"\n\nUser: ">> \o prompt]
    \/ /\ entries = <<>>
       /\ sent = [messages |-> <<>>,
                  contents |-> SystemLLMPrompt \o <<"\n\nUser: ">> \o prompt]

\* C26: whichever adapter is configured, the request it sends to the
\* provider carries, besides the prompt, at most 10 entries of the history
\* it was passed, and these are the last entries of that history in their
\* order.
AdaptersForwardLastTen ==
    [][ \A h \in inflight' \ inflight :
          h.pc \in { "ai_first", "ai_after_list", "ai_after_approved",
                     "ai_after_list_in_approval" } =>
              \E k \in 0..10 :
                  /\ k <= Len(PassedHistory(h)')
                  /\ Carries(h.forwarded, h.prompt,
                             SubSeq(PassedHistory(h)', Len(PassedHistory(h)') - k + 1,
                                    Len(PassedHistory(h)'))) ]_vars

\* the OpenAI adapter was passed 12 entries and sent the last 10 of them
TenOfTwelveForwarded ==
    \E h \in inflight :
        /\ h.pc = "ai_first" /\ defaultService = "openai"
        /\ Len(arrays[h.sessionHistory]) = 12
        /\ Len(h.forwarded.messages) = 12
        /\ h.forwarded.messages[2] = arrays[h.sessionHistory][3]
        /\ h.forwarded.messages[11] = arrays[h.sessionHistory][12]

\* C27: a /message request runs a module as a direct command only when the
\* user's text starts with "/run module"; a text that holds the directive
\* later, or without the slash, is sent to the AI backend.
DirectOnlyAtStart ==
    \A r \in Requests :
        (r.route = "message" /\ r.ran # <<>> /\ r.ran[1].site = "direct") =>
            /\ Len(r.userprompt) >= 11
            /\ SubSeq(r.userprompt, 1, 11) = <<"/","r","u","n"," ","m","o","d","u","l","e">>

\* C28: an approved request whose module has run and whose continuation
\* holds no further directive answers {success: true} with the rendered
\* final text, whether or not the session of its PendingApproval is still in
\* chatHistory.
ApprovalSurvivesClear ==
    \A r \in Requests :
        (r.route = "approve" /\ r.pc = "done" /\ r.ran # <<>> /\ r.created = <<>>) =>
            /\ r.resp.success
            /\ r.resp.message = <<"<p>">> \o r.aiResponse \o <<"</p>">>

\* C29: a requestId is taken by at most one /approve-module call, and a call
\* that has handed the stored directive to its handler is that one call: the
\* entry is out of pendingModuleRequests from then on, whether the handler
\* returned, threw, or the AI backend's call after it failed.
HandlerInvokedOnce ==
    /\ \A k \in 1..Len(issued) : Len(issued[k].resolved) <= 1
    /\ \A r \in Requests : (r.route = "approve" /\ r.ran # <<>>) =>
          /\ Len(r.ran) = 1
          /\ r.requestId \notin DOMAIN pendingModuleRequests
          /\ \E k \in IssuedAs(r.requestId) :
                issued[k].resolved = << [n |-> r.n, approved |-> r.approved] >>

\* the approved handler threw while a second approval of the same requestId
\* came in: three requests, one requestId, the second request took it
FailedApprovalNotRetried ==
    /\ done.route = "approve" /\ done.n = 2 /\ nreq = 3
    /\ done.moduleOutput.threw /\ ~done.resp.success
    /\ done.requestId \notin DOMAIN pendingModuleRequests
    /\ inflight = {} /\ Len(issued) = 1

\* C30: an /approve-module call that finds its requestId pending runs the
\* module only when `approved` is the boolean true; with any other value, or
\* none, it runs no handler and answers denied:true.
ApprovalFailsClosed ==
    \A r \in Requests : (r.route = "approve" /\ r.found /\ r.approved # "true") =>
        /\ r.ran = <<>>
        /\ r.pc = "done" /\ r.resp.denied

\* the PendingApprovals whose approval created the k-th one
ParentOf(k) ==
    { j \in 1..Len(issued) :
        issued[j].resolved # <<>> /\ issued[j].resolved[1].n = issued[k].by }

\* C31: a PendingApproval created by a /message request holds that request's
\* user prompt and session; one created by an approval holds the
\* originalPrompt and session of the PendingApproval that was approved. Along
\* a chain every PendingApproval therefore holds the prompt and session of
\* the /message request that started it.
ProvenanceKept ==
    \A k \in 1..Len(issued) :
        /\ \A j \in ParentOf(k) :
              /\ issued[k].entry.originalPrompt = issued[j].entry.originalPrompt
              /\ issued[k].entry.originalSessionId = issued[j].entry.originalSessionId
        /\ (issued[k].by = done.n /\ done.route = "message") =>
              /\ ParentOf(k) = {}
              /\ issued[k].entry.originalPrompt = done.userprompt
              /\ issued[k].entry.originalSessionId = done.sessionId
        /\ (issued[k].by = done.n /\ done.route = "approve") => ParentOf(k) # {}

\* a chain started by "bye" in session s1 has reached its third
\* PendingApproval
ThirdPendingKeepsProvenance ==
    /\ Len(issued) = 3
    /\ ParentOf(2) = {1} /\ ParentOf(3) = {2}
    /\ issued[3].entry.originalPrompt = <<"b","y","e">>
    /\ issued[3].entry.originalSessionId = "s1"
    /\ issued[3].entry.aiResponse # issued[3].entry.originalPrompt

\* a request, while it is served and when it has been answered: at most two
\* prompts given to the AI backend, at most two module handlers invoked, at
\* most one PendingApproval stored and that one with its response, no
\* response before the handler ends and one when it ends
TurnBounded(r) ==
    /\ Len(r.prompts) <= 2
    /\ Len(r.ran) <= 2
    /\ Len(r.created) <= 1
    /\ r.created # <<>> => r.pc = "done" /\ r.resp.requiresApproval
    /\ r \in inflight => ~r.resp.sent
    /\ (r.pc = "done" /\ r.n > 0) => r.resp.sent

\* C32: when every awaited backend call and module handler returns, each
\* /message and /approve-module request ends with its one response after at
\* most two backend calls and two handler invocations; it never starts a
\* further round itself, a chain goes on only through the PendingApproval it
\* stored.
EveryTurnTerminates ==
    /\ [](\A r \in Requests : TurnBounded(r))
    /\ <>[](inflight = {})

\* an approval has run its module and an auto-approved list and has been
\* answered after two backend calls
TwoCallsTwoHandlers ==
    /\ done.route = "approve" /\ done.resp.sent
    /\ Len(done.ran) = 2 /\ Len(done.prompts) = 2

\* C33: the step that receives a /message request without userprompt or
\* typoftask, or an /approve-module request without requestId or with one
\* that is not pending, changes neither chatHistory nor any message array
\* nor pendingModuleRequests, puts no handler in flight, and the request has
\* given no prompt to the AI backend and invoked no module handler.
RejectedRequestsChangeNothing ==
    [][ \A r \in inflight' \cup {done'} :
          ( /\ nreq' = nreq + 1 /\ r.n = nreq'
            /\ \/ r.route = "message" /\ (r.userprompt = <<>> \/ r.typoftask = "")
               \/ r.route = "approve" /\ r.requestId = <<>>
               \/ r.route = "approve" /\ r.requestId \notin DOMAIN pendingModuleRequests )
          => /\ chatHistory' = chatHistory /\ arrays' = arrays
             /\ pendingModuleRequests' = pendingModuleRequests
             /\ inflight' = inflight /\ issued' = issued
             /\ r = done' /\ ~r.resp.success
             /\ r.ran = <<>> /\ r.prompts = <<>> /\ r.pushed = <<>> /\ r.created = <<>>
      ]_vars

\* a /message request without typoftask that names a session nobody has
\* used was answered "Missing Fields" while a PendingApproval is stored
MissingFieldsRejected ==
    /\ done.route = "message" /\ done.typoftask = "" /\ done.userprompt = <<"h","i">>
    /\ done.sessionId = "s1" /\ "s1" \notin DOMAIN chatHistory
    /\ done.resp = [NoResponse EXCEPT !.sent = TRUE, !.message = <<"Missing Fields">>]
    /\ DOMAIN pendingModuleRequests # {}

====
